---- MODULE Spec2Model ----
(***************************************************************************)
(* The OpenAPI v2 front end of the gnostic Go generator's surface model:   *)
(* plugins/gnostic-go-generator/surface/model_openapiv2.go.                *)
(*                                                                         *)
(* NewModelFromOpenAPI2 walks a parsed OpenAPI v2 document and builds a    *)
(* Model: a name, a list of Types and a list of Methods.  The module       *)
(* models the builder as a state machine whose steps are the iterations of *)
(* the loops of build and the three steps of buildMethodFromOperation.     *)
(*                                                                         *)
(* Go strings are sequences of one-character strings, so that              *)
(* concatenation, replacement and the extraction of a reference's last     *)
(* segment are computed, not assumed.  A Go nil pointer is the empty       *)
(* sequence and a non-nil pointer a one-element sequence (Some).           *)
(***************************************************************************)
EXTENDS Integers, Sequences, FiniteSets, TLC

(***************************************************************************)
(* Bounds of the explored inputs.                                          *)
(***************************************************************************)
MaxTypes == 2        \* entries in a schema's type set
MaxItems == 2        \* item schemas of an array schema
MaxProperties == 2   \* declared properties of a definition
MaxParameters == 2   \* entries of an operation's parameter list
MaxResponses == 2    \* status-code entries of an operation


MaxDocumentSize == 5  \* definitions, path items and operations of a document

(***************************************************************************)
(* String literals of the source, and the strings the inputs are built     *)
(* from.                                                                   *)
(***************************************************************************)
str_Parameters ==
    <<"P", "a", "r", "a", "m", "e", "t", "e", "r", "s">>

str_Responses ==
    <<"R", "e", "s", "p", "o", "n", "s", "e", "s">>

str_holds_parameters_to ==
    <<" ", "h", "o", "l", "d", "s", " ", "p", "a", "r", "a", "m", "e", "t", "e", "r", "s", " ", "t", "o", " ">>

str_holds_responses_of ==
    <<" ", "h", "o", "l", "d", "s", " ", "r", "e", "s", "p", "o", "n", "s", "e", "s", " ", "o", "f", " ">>

str_implements ==
    <<"i", "m", "p", "l", "e", "m", "e", "n", "t", "s", " ", "t", "h", "e", " ", "s", "e", "r", "v", "i", "c", "e", " ", "d", "e", "f", "i", "n", "i", "t", "i", "o", "n", " ", "o", "f", " ">>

str_string ==
    <<"s", "t", "r", "i", "n", "g">>

str_integer ==
    <<"i", "n", "t", "e", "g", "e", "r">>

str_int32 ==
    <<"i", "n", "t", "3", "2">>

str_int ==
    <<"i", "n", "t">>

str_number ==
    <<"n", "u", "m", "b", "e", "r">>

str_array ==
    <<"a", "r", "r", "a", "y">>

str_object ==
    <<"o", "b", "j", "e", "c", "t">>

str_slice ==
    <<"[", "]">>

str_map_string ==
    <<"m", "a", "p", "[", "s", "t", "r", "i", "n", "g", "]">>

str_map_string_interface ==
    <<"m", "a", "p", "[", "s", "t", "r", "i", "n", "g", "]", "i", "n", "t", "e", "r", "f", "a", "c", "e", "{", "}">>

str_star ==
    <<"*">>

str_GET ==
    <<"G", "E", "T">>

str_POST ==
    <<"P", "O", "S", "T">>

str_PUT ==
    <<"P", "U", "T">>

str_DELETE ==
    <<"D", "E", "L", "E", "T", "E">>

txt_ref ==
    <<"_", "r", "e", "f", ":", "\"">>

txt_format ==
    <<"f", "o", "r", "m", "a", "t", ":", "\"">>

txt_name ==
    <<"n", "a", "m", "e", ":", "\"">>

txt_type ==
    <<"t", "y", "p", "e", ":", "\"">>

txt_value ==
    <<"v", "a", "l", "u", "e", ":", "\"">>

txt_q ==
    <<"\"", " ">>

txt_close ==
    <<">", " ">>

txt_type_open ==
    <<"t", "y", "p", "e", ":", "<">>

txt_items_open ==
    <<"i", "t", "e", "m", "s", ":", "<">>

txt_schema_open ==
    <<"s", "c", "h", "e", "m", "a", ":", "<">>

txt_ap_open ==
    <<"a", "d", "d", "i", "t", "i", "o", "n", "a", "l", "_", "p", "r", "o", "p", "e", "r", "t", "i", "e", "s", ":", "<">>

txt_boolean ==
    <<"b", "o", "o", "l", "e", "a", "n", ":", "t", "r", "u", "e", " ">>

txt_parameter_open ==
    <<"p", "a", "r", "a", "m", "e", "t", "e", "r", ":", "<">>

txt_json_reference_open ==
    <<"j", "s", "o", "n", "_", "r", "e", "f", "e", "r", "e", "n", "c", "e", ":", "<">>

txt_body_open ==
    <<"b", "o", "d", "y", "_", "p", "a", "r", "a", "m", "e", "t", "e", "r", ":", "<">>

txt_non_body_open ==
    <<"n", "o", "n", "_", "b", "o", "d", "y", "_", "p", "a", "r", "a", "m", "e", "t", "e", "r", ":", "<">>

txt_header_open ==
    <<"h", "e", "a", "d", "e", "r", "_", "p", "a", "r", "a", "m", "e", "t", "e", "r", "_", "s", "u", "b", "_", "s", "c", "h", "e", "m", "a", ":", "<">>

txt_form_open ==
    <<"f", "o", "r", "m", "_", "d", "a", "t", "a", "_", "p", "a", "r", "a", "m", "e", "t", "e", "r", "_", "s", "u", "b", "_", "s", "c", "h", "e", "m", "a", ":", "<">>

txt_query_open ==
    <<"q", "u", "e", "r", "y", "_", "p", "a", "r", "a", "m", "e", "t", "e", "r", "_", "s", "u", "b", "_", "s", "c", "h", "e", "m", "a", ":", "<">>

txt_path_open ==
    <<"p", "a", "t", "h", "_", "p", "a", "r", "a", "m", "e", "t", "e", "r", "_", "s", "u", "b", "_", "s", "c", "h", "e", "m", "a", ":", "<">>

in_refPet ==
    <<"#", "/", "d", "e", "f", "i", "n", "i", "t", "i", "o", "n", "s", "/", "P", "e", "t">>

in_Pet ==
    <<"P", "e", "t">>

in_Pets ==
    <<"P", "e", "t", "s">>

in_id ==
    <<"i", "d">>

in_name ==
    <<"n", "a", "m", "e">>

in_a ==
    <<"a">>

in_a_b ==
    <<"a", ".", "b">>

in_aParameters ==
    <<"a", "P", "a", "r", "a", "m", "e", "t", "e", "r", "s">>

in_p ==
    <<"/", "p">>

in_p_id ==
    <<"/", "p", "/", "{", "i", "d", "}">>

in_200 ==
    <<"2", "0", "0">>

in_default ==
    <<"d", "e", "f", "a", "u", "l", "t">>

(***************************************************************************)
(* Pointers and strings.                                                   *)
(***************************************************************************)
Nil == <<>>

Some(x) == <<x>>

Deref(p) == p[1]

EmptyString == <<>>

UpperCase ==
    <<"A", "B", "C", "D", "E", "F", "G", "H", "I", "J", "K", "L", "M",
      "N", "O", "P", "Q", "R", "S", "T", "U", "V", "W", "X", "Y", "Z">>

LowerCase ==
    <<"a", "b", "c", "d", "e", "f", "g", "h", "i", "j", "k", "l", "m",
      "n", "o", "p", "q", "r", "s", "t", "u", "v", "w", "x", "y", "z">>

Digits == <<"0", "1", "2", "3", "4", "5", "6", "7", "8", "9">>

Range(s) == {s[i] : i \in 1..Len(s)}

\* strings.ToLower
ToLower(s) ==
    [i \in 1..Len(s) |->
        IF s[i] \in Range(UpperCase)
        THEN LowerCase[CHOOSE k \in 1..26 : UpperCase[k] = s[i]]
        ELSE s[i]]

RECURSIVE Replace(_, _, _)
\* strings.Replace(s, old, new, -1) for a one-character old
Replace(s, old, new) ==
    IF s = <<>> THEN <<>>
    ELSE (IF Head(s) = old THEN new ELSE <<Head(s)>>)
         \o Replace(Tail(s), old, new)

RECURSIVE LastSegment(_)
\* the part of s after its last "/", all of s when it has none
LastSegment(s) ==
    IF \E i \in 1..Len(s) : s[i] = "/"
    THEN LastSegment(Tail(s))
    ELSE s

(***************************************************************************)
(* Helpers of the surface package that the builder calls.                  *)
(***************************************************************************)
\* "#/definitions/Foo" becomes "Foo"
typeForRef(ref) == LastSegment(ref)

IdentifierChars ==
    Range(UpperCase) \cup Range(LowerCase) \cup Range(Digits) \cup {"_"}

\* turns an operation identifier into a legal identifier
sanitizeOperationName(name) ==
    [i \in 1..Len(name) |->
        IF name[i] \in IdentifierChars THEN name[i] ELSE "_"]

\* lower-cases the verb, strips the braces of path templates and
\* concatenates the path segments
generateOperationName(method, path) ==
    ToLower(method)
    \o Replace(Replace(Replace(path, "{", <<>>), "}", <<>>), "/", <<>>)

addField(t, f) == [t EXCEPT !.Fields = Append(@, f)]

addType(m, t) == [m EXCEPT !.Types = Append(@, t)]

addMethod(m, method) == [m EXCEPT !.Methods = Append(@, method)]

Kind_UNSET == "UNSET"

Kind_STRUCT == "STRUCT"

Kind_MAP == "MAP"

Position_UNSET == "UNSET"

Position_BODY == "BODY"

Position_HEADER == "HEADER"

Position_FORMDATA == "FORMDATA"

Position_QUERY == "QUERY"

Position_PATH == "PATH"

\* the zero value of Type
NewType ==
    [Name |-> EmptyString, Description |-> EmptyString, Kind |-> Kind_UNSET,
     Fields |-> <<>>, MapType |-> EmptyString]

\* the zero value of Field
NewField ==
    [Name |-> EmptyString, Type |-> EmptyString, ValueType |-> EmptyString,
     Format |-> EmptyString, Position |-> Position_UNSET, Serialize |-> FALSE]

\* the zero value of Method
NewMethod ==
    [Operation |-> EmptyString, Path |-> EmptyString, Method |-> EmptyString,
     Description |-> EmptyString, Name |-> EmptyString,
     ParametersTypeName |-> EmptyString, ResponsesTypeName |-> EmptyString]

\* the zero value of Model
NewModel == [Name |-> EmptyString, Types |-> Nil, Methods |-> Nil]

(***************************************************************************)
(* The text of a message, as fmt prints it with %v and %+v.                *)
(***************************************************************************)
RECURSIVE Concat(_)
Concat(ss) == IF ss = <<>> THEN <<>> ELSE Head(ss) \o Concat(Tail(ss))

TextString(label, s) == IF s = EmptyString THEN <<>> ELSE label \o s \o txt_q

TextInnerSchema(s) == txt_schema_open \o TextString(txt_ref, s.XRef) \o txt_close

TextAdditionalProperties(p) ==
    IF p = Nil THEN <<>>
    ELSE txt_ap_open
         \o (IF Deref(p).Schema # Nil
             THEN TextInnerSchema(Deref(Deref(p).Schema))
             ELSE txt_boolean)
         \o txt_close

TextSchema(schema) ==
    TextString(txt_ref, schema.XRef)
    \o TextString(txt_format, schema.Format)
    \o TextAdditionalProperties(schema.AdditionalProperties)
    \o (IF schema.Type = Nil THEN <<>>
        ELSE txt_type_open
             \o Concat([i \in 1..Len(Deref(schema.Type).Value) |->
                          TextString(txt_value, Deref(schema.Type).Value[i])])
             \o txt_close)
    \o (IF schema.Items = Nil THEN <<>>
        ELSE txt_items_open
             \o Concat([i \in 1..Len(Deref(schema.Items).Schema) |->
                          TextInnerSchema(Deref(schema.Items).Schema[i])])
             \o txt_close)

TextNonBody(label, p) ==
    label \o TextString(txt_name, p.Name) \o TextString(txt_type, p.Type)
    \o TextString(txt_format, p.Format) \o txt_close

TextParametersItem(item) ==
    IF item.Oneof = "JsonReference"
    THEN txt_json_reference_open \o TextString(txt_ref, item.XRef) \o txt_close
    ELSE txt_parameter_open
         \o (IF item.Parameter = "BodyParameter"
             THEN txt_body_open \o TextString(txt_name, item.Name)
                  \o (IF item.Schema = Nil THEN <<>>
                      ELSE txt_schema_open \o TextSchema(Deref(item.Schema))
                           \o txt_close)
                  \o txt_close
             ELSE IF item.Parameter = "NonBodyParameter"
             THEN txt_non_body_open
                  \o (CASE item.NonBody = "Header" -> TextNonBody(txt_header_open, item)
                        [] item.NonBody = "FormData" -> TextNonBody(txt_form_open, item)
                        [] item.NonBody = "Query" -> TextNonBody(txt_query_open, item)
                        [] item.NonBody = "Path" -> TextNonBody(txt_path_open, item)
                        [] OTHER -> <<>>)
                  \o txt_close
             ELSE <<>>)
         \o txt_close

(***************************************************************************)
(* typeForSchema                                                           *)
(***************************************************************************)
\* the rules for a schema without a reference
typeForInlineSchema(schema) ==
    LET types == Deref(schema.Type).Value
        format == schema.Format
        items == Deref(schema.Items).Schema
        propertySchema == Deref(schema.AdditionalProperties).Schema
        one(t) == schema.Type # Nil /\ Len(types) = 1 /\ types[1] = t
    IN  IF one(str_string) THEN str_string
        ELSE IF one(str_integer) /\ format = str_int32 THEN str_int32
        ELSE IF one(str_integer) THEN str_int
        ELSE IF one(str_number) THEN str_int
        ELSE IF /\ one(str_array)
                /\ schema.Items # Nil
                /\ Len(items) = 1
                /\ items[1].XRef # EmptyString
        THEN str_slice \o typeForRef(items[1].XRef)
        ELSE IF one(str_object) /\ schema.AdditionalProperties = Nil
        THEN str_map_string_interface
        ELSE IF /\ schema.AdditionalProperties # Nil
                /\ propertySchema # Nil
                /\ Deref(propertySchema).XRef # EmptyString
        THEN str_map_string \o typeForRef(Deref(propertySchema).XRef)
        ELSE TextSchema(schema)

\* the reference is looked at after the declared type
typeForSchema_TypeFirst(schema) ==
    IF schema.Type = Nil /\ schema.XRef # EmptyString
    THEN typeForRef(schema.XRef)
    ELSE typeForInlineSchema(schema)

typeForSchema(schema) ==
    IF schema.XRef # EmptyString
    THEN typeForRef(schema.XRef)
    ELSE typeForInlineSchema(schema)

(***************************************************************************)
(* buildTypeFromDefinition                                                 *)
(***************************************************************************)
\* the Field of one declared property
definitionField(pair2) ==
    [NewField EXCEPT !.Name = pair2.Name,
                     !.Type = typeForSchema(pair2.Value),
                     !.Serialize = TRUE]

RECURSIVE definitionFields(_, _)
\* the loop over the declared properties
definitionFields(t, properties) ==
    IF properties = <<>> THEN t
    ELSE definitionFields(addField(t, definitionField(Head(properties))),
                          Tail(properties))

\* the properties of the schema: a struct when it declares any
definitionStruct(t, schema) ==
    IF schema.Properties # Nil
    THEN LET properties == Deref(schema.Properties).AdditionalProperties
         IN  definitionFields(
                 IF Len(properties) > 0 THEN [t EXCEPT !.Kind = Kind_STRUCT] ELSE t,
                 properties)
    ELSE t

\* the additional properties are looked at whatever the fields are
definitionMap_Unguarded(t, schema) ==
    IF schema.AdditionalProperties # Nil
    THEN LET propertySchema == Deref(schema.AdditionalProperties).Schema
         IN  IF propertySchema = Nil
             THEN [panic |-> TRUE, t |-> t]
             ELSE [panic |-> FALSE,
                   t |-> [t EXCEPT !.Kind = Kind_MAP,
                                   !.MapType = typeForRef(Deref(propertySchema).XRef)]]
    ELSE [panic |-> FALSE, t |-> t]

\* a schema without fields and with additional properties: a map.  GetSchema()
\* is nil when the clause is a boolean, and reading XRef through it panics.
definitionMap(t, schema) ==
    IF Len(t.Fields) = 0 /\ schema.AdditionalProperties # Nil
    THEN LET propertySchema == Deref(schema.AdditionalProperties).Schema
         IN  IF propertySchema = Nil
             THEN [panic |-> TRUE, t |-> t]
             ELSE [panic |-> FALSE,
                   t |-> [t EXCEPT !.Kind = Kind_MAP,
                                   !.MapType = typeForRef(Deref(propertySchema).XRef)]]
    ELSE [panic |-> FALSE, t |-> t]

buildTypeFromDefinition(name, schema) ==
    definitionMap(
        definitionStruct(
            [NewType EXCEPT !.Name = name,
                            !.Description = str_implements \o name],
            schema),
        schema)

(***************************************************************************)
(* buildTypeFromParameters                                                 *)
(***************************************************************************)
\* parametersItem.GetParameter() # nil
GetParameter(parametersItem) == parametersItem.Oneof = "Parameter"

\* the Field of one parameter
parameterField(parametersItem) ==
    LET f0 == [NewField EXCEPT !.Type = TextParametersItem(parametersItem)]
        f1 == IF parametersItem.Parameter = "BodyParameter"
              THEN [f0 EXCEPT !.Name = parametersItem.Name,
                              !.Type = IF parametersItem.Schema # Nil
                                       THEN typeForSchema(Deref(parametersItem.Schema))
                                       ELSE @,
                              !.Position = Position_BODY]
              ELSE f0
        f2 == IF parametersItem.Parameter = "NonBodyParameter"
              THEN CASE parametersItem.NonBody = "Header" ->
                          [f1 EXCEPT !.Name = parametersItem.Name,
                                     !.Type = parametersItem.Type,
                                     !.Position = Position_HEADER]
                     [] parametersItem.NonBody = "FormData" ->
                          [f1 EXCEPT !.Name = parametersItem.Name,
                                     !.Type = parametersItem.Type,
                                     !.Position = Position_FORMDATA]
                     [] parametersItem.NonBody = "Query" ->
                          [f1 EXCEPT !.Name = parametersItem.Name,
                                     !.Type = parametersItem.Type,
                                     !.Position = Position_QUERY]
                     [] parametersItem.NonBody = "Path" ->
                          [f1 EXCEPT !.Name = parametersItem.Name,
                                     !.Type = parametersItem.Type,
                                     !.Format = parametersItem.Format,
                                     !.Position = Position_PATH]
                     [] OTHER -> f1
              ELSE f1
    IN  [f2 EXCEPT !.Serialize = TRUE]

RECURSIVE parameterFields(_, _)
\* the loop over the parameter list
parameterFields(t, parameters) ==
    IF parameters = <<>> THEN t
    ELSE parameterFields(
             IF GetParameter(Head(parameters))
             THEN addField(t, parameterField(Head(parameters)))
             ELSE t,
             Tail(parameters))

\* the model and the type name that buildTypeFromParameters leaves
buildTypeFromParameters(mdl, name, parameters) ==
    LET t == parameterFields(
                 [NewType EXCEPT !.Name = name \o str_Parameters,
                                 !.Description = (name \o str_Parameters)
                                                 \o str_holds_parameters_to \o name,
                                 !.Kind = Kind_STRUCT],
                 parameters)
    IN  IF Len(t.Fields) > 0
        THEN [model |-> addType(mdl, t), typeName |-> t.Name]
        ELSE [model |-> mdl, typeName |-> EmptyString]

(***************************************************************************)
(* buildTypeFromResponses                                                  *)
(***************************************************************************)
\* response # nil, response.Schema # nil and response.Schema.GetSchema() # nil
responseHasSchema(value) ==
    /\ value.Oneof = "Response"
    /\ value.Schema # Nil
    /\ Deref(value.Schema).Schema # Nil

\* the field is given the value type itself, not a pointer to it
responseField_NoPointer(responseCode) ==
    LET valueType == typeForSchema(Deref(Deref(responseCode.Value.Schema).Schema))
    IN  [NewField EXCEPT !.Name = responseCode.Name,
                         !.Serialize = FALSE,
                         !.ValueType = valueType,
                         !.Type = valueType]

\* the Field of one status code
responseField(responseCode) ==
    LET valueType == typeForSchema(Deref(Deref(responseCode.Value.Schema).Schema))
    IN  [NewField EXCEPT !.Name = responseCode.Name,
                         !.Serialize = FALSE,
                         !.ValueType = valueType,
                         !.Type = str_star \o valueType]

RECURSIVE responseFields(_, _)
\* the loop over the status codes
responseFields(t, responseCodes) ==
    IF responseCodes = <<>> THEN t
    ELSE responseFields(
             IF responseHasSchema(Head(responseCodes).Value)
             THEN addField(t, responseField(Head(responseCodes)))
             ELSE t,
             Tail(responseCodes))

\* the model and the type name that buildTypeFromResponses leaves; ranging
\* over the response codes of a nil Responses panics
buildTypeFromResponses(mdl, name, responses) ==
    IF responses = Nil
    THEN [panic |-> TRUE, model |-> mdl, typeName |-> EmptyString]
    ELSE LET t == responseFields(
                      [NewType EXCEPT !.Name = name \o str_Responses,
                                      !.Description = (name \o str_Responses)
                                                      \o str_holds_responses_of \o name,
                                      !.Kind = Kind_STRUCT],
                      Deref(responses).ResponseCode)
         IN  IF Len(t.Fields) > 0
             THEN [panic |-> FALSE, model |-> addType(mdl, t), typeName |-> t.Name]
             ELSE [panic |-> FALSE, model |-> mdl, typeName |-> EmptyString]

(***************************************************************************)
(* buildMethodFromOperation and build                                      *)
(***************************************************************************)
\* the identifier is used as it is written
methodName_Unsanitized(op, method, path) ==
    IF op.OperationId = EmptyString
    THEN generateOperationName(method, path)
    ELSE op.OperationId

\* the name of a Method
methodName(op, method, path) ==
    IF sanitizeOperationName(op.OperationId) = EmptyString
    THEN generateOperationName(method, path)
    ELSE sanitizeOperationName(op.OperationId)

\* POST is looked at before GET
Verbs_PostFirst == <<str_POST, str_GET, str_PUT, str_DELETE>>

\* the verbs that build looks at, in its order
Verbs == <<str_GET, str_POST, str_PUT, str_DELETE>>

\* PATCH is taken for PUT
operationOf_Patch(v, method) ==
    CASE method = str_GET -> v.Get
      [] method = str_POST -> v.Post
      [] method = str_PUT -> IF v.Put # Nil THEN v.Put ELSE v.Patch
      [] method = str_DELETE -> v.Delete

\* the operation of a path item under a verb, nil when it has none
operationOf(v, method) ==
    CASE method = str_GET -> v.Get
      [] method = str_POST -> v.Post
      [] method = str_PUT -> v.Put
      [] method = str_DELETE -> v.Delete

(***************************************************************************)
(* The inputs that are explored.                                           *)
(***************************************************************************)
SeqsUpTo(S, n) == UNION {[1..k -> S] : k \in 0..n}

Schema(ref, type, format, items, additionalProperties) ==
    [XRef |-> ref, Type |-> type, Format |-> format, Items |-> items,
     AdditionalProperties |-> additionalProperties]

\* the schemas that an items list or an additional-properties clause holds
InnerSchemas == {[XRef |-> EmptyString], [XRef |-> in_refPet]}

\* no clause, the boolean form, and the schema form with and without a reference
AdditionalPropertiesItems ==
    {Nil, Some([Schema |-> Nil])} \cup {Some([Schema |-> Some(s)]) : s \in InnerSchemas}

TypeNames == {str_string, str_integer, str_number, str_array, str_object}

Schemas ==
    {Schema(ref, type, format, items, ap) :
        ref \in {EmptyString, in_refPet},
        type \in {Nil} \cup {Some([Value |-> v]) : v \in SeqsUpTo(TypeNames, MaxTypes)},
        format \in {EmptyString, str_int32},
        items \in {Nil} \cup {Some([Schema |-> s]) : s \in SeqsUpTo(InnerSchemas, MaxItems)},
        ap \in AdditionalPropertiesItems}

RefSchema == Schema(in_refPet, Nil, EmptyString, Nil, Nil)

StringSchema == Schema(EmptyString, Some([Value |-> <<str_string>>]), EmptyString, Nil, Nil)

\* a schema of two types, which no rule of typeForSchema matches
OpaqueSchema ==
    Schema(EmptyString, Some([Value |-> <<str_string, str_number>>]), EmptyString, Nil, Nil)

SmallSchemas == {RefSchema, StringSchema, OpaqueSchema}

\* the schema of a struct with one property
PetSchema ==
    [Properties |-> Some([AdditionalProperties |->
                             <<[Name |-> in_name, Value |-> StringSchema]>>]),
     AdditionalProperties |-> Nil]

NamedSchemas(names, values) == [Name : names, Value : values]

DefinitionSchemas ==
    [Properties :
        {Nil} \cup {Some([AdditionalProperties |-> ps]) :
                      ps \in SeqsUpTo(NamedSchemas({in_name, in_id}, SmallSchemas),
                                      MaxProperties)},
     AdditionalProperties : AdditionalPropertiesItems]

\* the definitions buildTypeFromDefinition is explored on
Definitions == NamedSchemas({in_Pet}, DefinitionSchemas)

ParametersItem(oneof, parameter, nonBody, name, type, format, schema, ref) ==
    [Oneof |-> oneof, Parameter |-> parameter, NonBody |-> nonBody, Name |-> name,
     Type |-> type, Format |-> format, Schema |-> schema, XRef |-> ref]

NonBodyParameter(nonBody, format) ==
    ParametersItem("Parameter", "NonBodyParameter", nonBody, in_id, str_string,
                   format, Nil, EmptyString)

PathParameter == NonBodyParameter("Path", str_int32)

\* a reference, a parameter of no kind, body parameters with and without a
\* schema, a non-body parameter of no kind, and the four non-body kinds
ParametersItems ==
    {ParametersItem("JsonReference", "None", "None", EmptyString, EmptyString,
                    EmptyString, Nil, in_refPet),
     ParametersItem("Parameter", "None", "None", EmptyString, EmptyString,
                    EmptyString, Nil, EmptyString),
     ParametersItem("Parameter", "BodyParameter", "None", in_name, EmptyString,
                    EmptyString, Some(RefSchema), EmptyString),
     ParametersItem("Parameter", "BodyParameter", "None", in_name, EmptyString,
                    EmptyString, Nil, EmptyString),
     NonBodyParameter("None", EmptyString),
     NonBodyParameter("Header", EmptyString),
     NonBodyParameter("FormData", EmptyString),
     NonBodyParameter("Query", EmptyString),
     PathParameter}

\* a reference, a response without a schema, one with a file schema and one
\* with a schema
ResponseValues ==
    {[Oneof |-> "JsonReference", Schema |-> Nil],
     [Oneof |-> "Response", Schema |-> Nil],
     [Oneof |-> "Response", Schema |-> Some([Schema |-> Nil])],
     [Oneof |-> "Response", Schema |-> Some([Schema |-> Some(RefSchema)])],
     [Oneof |-> "Response", Schema |-> Some([Schema |-> Some(OpaqueSchema)])]}

ResponseCodes == [Name : {in_200, in_default}, Value : ResponseValues]

Responses(codes) == Some([ResponseCode |-> codes])

OkResponse ==
    [Name |-> in_200,
     Value |-> [Oneof |-> "Response", Schema |-> Some([Schema |-> Some(RefSchema)])]]

Operation(id, parameters, responses) ==
    [OperationId |-> id, Description |-> EmptyString, Parameters |-> parameters,
     Responses |-> responses]

\* the operations buildMethodFromOperation is explored on: every parameter
\* list with plain responses, and every response set with plain parameters
Operations ==
    {Operation(id, ps, rs) :
        id \in {EmptyString, in_a, in_a_b},
        ps \in SeqsUpTo(ParametersItems, MaxParameters),
        rs \in {Responses(<<>>), Responses(<<OkResponse>>)}}
    \cup
    {Operation(id, ps, rs) :
        id \in {EmptyString, in_a, in_a_b},
        ps \in {<<>>, <<PathParameter>>},
        rs \in {Nil} \cup {Responses(cs) : cs \in SeqsUpTo(ResponseCodes, MaxResponses)}}

NoOperations == [Get |-> Nil, Post |-> Nil, Put |-> Nil, Delete |-> Nil, Patch |-> Nil]

\* the path items with one operation
OperationPathItems ==
    {[Name |-> in_p_id, Value |-> v] :
        v \in UNION {{[NoOperations EXCEPT !.Get = Some(op)],
                      [NoOperations EXCEPT !.Post = Some(op)],
                      [NoOperations EXCEPT !.Put = Some(op)],
                      [NoOperations EXCEPT !.Delete = Some(op)]} : op \in Operations}}

\* the definitions of a whole document: two structs, one of them named as the
\* parameters type of the operation "a" is, and a schema whose additional
\* properties are the boolean form
DocumentDefinitions ==
    {[Name |-> in_Pet, Value |-> PetSchema],
     [Name |-> in_aParameters, Value |-> PetSchema],
     [Name |-> in_Pet,
      Value |-> [Properties |-> Nil, AdditionalProperties |-> Some([Schema |-> Nil])]]}

\* the operations of a whole document: one without an identifier, one with
\* an identifier, and one without responses
DocumentOperations ==
    {Operation(EmptyString, <<>>, Responses(<<OkResponse>>)),
     Operation(in_a, <<PathParameter>>, Responses(<<OkResponse>>)),
     Operation(in_a, <<PathParameter>>, Nil)}

Slots == {"Get", "Post", "Put", "Delete", "Patch"}

OperationCount(v) == Cardinality({f \in Slots : v[f] # Nil})

\* the size of a document: its definitions, its path items and their operations
RECURSIVE PathsSize(_)
PathsSize(paths) ==
    IF paths = <<>> THEN 0
    ELSE 1 + OperationCount(Head(paths).Value) + PathsSize(Tail(paths))

DocumentSize(doc) ==
    (IF doc.Definitions = Nil THEN 0
     ELSE Len(Deref(doc.Definitions).AdditionalProperties))
    + (IF doc.Paths = Nil THEN 0 ELSE PathsSize(Deref(doc.Paths).Path))

\* the operations of the path items of a whole document
DocumentPathItemValues ==
    {v \in [Get : {Nil} \cup {Some(op) : op \in DocumentOperations},
            Post : {Nil} \cup {Some(op) : op \in DocumentOperations},
            Put : {Nil} \cup {Some(op) : op \in DocumentOperations},
            Delete : {Nil} \cup {Some(op) : op \in DocumentOperations},
            Patch : {Nil, Some(Operation(in_a, <<>>, Responses(<<OkResponse>>)))}] :
        1 + OperationCount(v) <= MaxDocumentSize}

RECURSIVE PathName(_)
\* the paths of a document are the keys of a map, so no two are the same: the
\* k-th is "/p/{id}" after k - 1 times "/p"
PathName(k) == IF k = 1 THEN in_p_id ELSE in_p \o PathName(k - 1)

(***************************************************************************)
(* The builder.                                                            *)
(*                                                                         *)
(* document   the document passed to NewModelFromOpenAPI2, its definitions *)
(*            and path items filled in as build ranges over them            *)
(* model      b.model                                                      *)
(* pair       the pair of the running loop of build                        *)
(* verb       the position in Verbs of the verb build looks at              *)
(* m          the Method buildMethodFromOperation is filling               *)
(* result     what NewModelFromOpenAPI2 gave its caller                    *)
(* schema, typeName   an argument of typeForSchema and what it returned    *)
(* pc         the place in the code                                        *)
(***************************************************************************)
VARIABLES pc, document, model, pair, verb, m, result, schema, typeName

vars == <<pc, document, model, pair, verb, m, result, schema, typeName>>

Running == [status |-> "running", model |-> Nil, err |-> Nil]

Panic == [status |-> "panic", model |-> Nil, err |-> Nil]

\* buildModel's two returns: build's error, or the model
Returned(mdl, err) ==
    IF err # Nil
    THEN [status |-> "returned", model |-> Nil, err |-> err]
    ELSE [status |-> "returned", model |-> Some(mdl), err |-> Nil]

Init ==
    /\ pc = "buildModel"
    /\ document \in [Info : {Nil, Some([Title |-> in_Pets])},
                     Definitions : {Nil, Some([AdditionalProperties |-> <<>>])},
                     Paths : {Nil, Some([Path |-> <<>>])}]
    /\ model = NewModel
    /\ pair = Nil
    /\ verb = 0
    /\ m = NewMethod
    /\ result = Running
    /\ schema = Nil
    /\ typeName = Nil

\* buildModel up to its call of build; a document without Info panics
BuildModel ==
    /\ pc = "buildModel"
    /\ IF document.Info = Nil
       THEN /\ pc' = "panic"
            /\ result' = Panic
            /\ UNCHANGED model
       ELSE /\ model' = [model EXCEPT !.Name = Deref(document.Info).Title,
                                      !.Types = <<>>,
                                      !.Methods = <<>>]
            /\ pc' = "definitions"
            /\ UNCHANGED result
    /\ UNCHANGED <<document, pair, verb, m, schema, typeName>>

\* the loop over the definitions takes its next pair; the definitions are the
\* entries of a map, so no two have the same name
RangeDefinitions ==
    /\ pc = "definitions"
    /\ document.Definitions # Nil
    /\ DocumentSize(document) < MaxDocumentSize
    /\ \E p \in DocumentDefinitions :
        /\ \A i \in 1..Len(Deref(document.Definitions).AdditionalProperties) :
               Deref(document.Definitions).AdditionalProperties[i].Name # p.Name
        /\ pair' = p
        /\ document' = [document EXCEPT
               !.Definitions = Some([AdditionalProperties |->
                   Append(Deref(@).AdditionalProperties, p)])]
    /\ pc' = "definition"
    /\ UNCHANGED <<model, verb, m, result, schema, typeName>>

\* the body of the loop over the definitions
BuildTypeFromDefinition ==
    /\ pc = "definition"
    /\ LET r == buildTypeFromDefinition(pair.Name, pair.Value)
       IN  IF r.panic
           THEN /\ pc' = "panic"
                /\ result' = Panic
                /\ UNCHANGED model
           ELSE /\ model' = addType(model, r.t)
                /\ pc' = "definitions"
                /\ UNCHANGED result
    /\ UNCHANGED <<document, pair, verb, m, schema, typeName>>

\* the definitions are done and build reads document.Paths.Path
Paths ==
    /\ pc = "definitions"
    /\ IF document.Paths = Nil
       THEN /\ pc' = "panic"
            /\ result' = Panic
       ELSE /\ pc' = "paths"
            /\ UNCHANGED result
    /\ UNCHANGED <<document, model, pair, verb, m, schema, typeName>>

\* the loop over the paths takes its next pair
RangePaths ==
    /\ pc = "paths"
    /\ \E v \in DocumentPathItemValues :
        LET p == [Name |-> PathName(Len(Deref(document.Paths).Path) + 1), Value |-> v]
        IN  /\ DocumentSize(document) + 1 + OperationCount(v) <= MaxDocumentSize
            /\ pair' = p
            /\ document' = [document EXCEPT
                   !.Paths = Some([Path |-> Append(Deref(@).Path, p)])]
    /\ pc' = "operation"
    /\ verb' = 1
    /\ UNCHANGED <<model, m, result, schema, typeName>>

\* the next verb of the path item, or the next path item
NextVerb ==
    IF verb < Len(Verbs)
    THEN pc' = "operation" /\ verb' = verb + 1
    ELSE pc' = "paths" /\ verb' = 0

\* the path item has no operation under the verb
NoOperation ==
    /\ pc = "operation"
    /\ operationOf(pair.Value, Verbs[verb]) = Nil
    /\ NextVerb
    /\ UNCHANGED <<document, model, pair, m, result, schema, typeName>>

\* buildMethodFromOperation up to its call of buildTypeFromParameters
BuildTypeFromParameters ==
    /\ pc = "operation"
    /\ operationOf(pair.Value, Verbs[verb]) # Nil
    /\ LET op == Deref(operationOf(pair.Value, Verbs[verb]))
           name == methodName(op, Verbs[verb], pair.Name)
           r == buildTypeFromParameters(model, name, op.Parameters)
       IN  /\ m' = [NewMethod EXCEPT !.Operation = op.OperationId,
                                     !.Path = pair.Name,
                                     !.Method = Verbs[verb],
                                     !.Description = op.Description,
                                     !.Name = name,
                                     !.ParametersTypeName = r.typeName]
           /\ model' = r.model
    /\ pc' = "responses"
    /\ UNCHANGED <<document, pair, verb, result, schema, typeName>>

\* buildMethodFromOperation's call of buildTypeFromResponses
BuildTypeFromResponses ==
    /\ pc = "responses"
    /\ LET op == Deref(operationOf(pair.Value, Verbs[verb]))
           r == buildTypeFromResponses(model, m.Name, op.Responses)
       IN  IF r.panic
           THEN /\ pc' = "panic"
                /\ result' = Panic
                /\ UNCHANGED <<model, m>>
           ELSE /\ m' = [m EXCEPT !.ResponsesTypeName = r.typeName]
                /\ model' = r.model
                /\ pc' = "addMethod"
                /\ UNCHANGED result
    /\ UNCHANGED <<document, pair, verb, schema, typeName>>

\* buildMethodFromOperation's call of addMethod, and its return
AddMethod ==
    /\ pc = "addMethod"
    /\ model' = addMethod(model, m)
    /\ NextVerb
    /\ UNCHANGED <<document, pair, m, result, schema, typeName>>

\* the paths are done: build returns its err, which nothing has set, and
\* buildModel returns
Return ==
    /\ pc = "paths"
    /\ pc' = "done"
    /\ result' = Returned(model, Nil)
    /\ UNCHANGED <<document, model, pair, verb, m, schema, typeName>>

Next ==
    \/ BuildModel
    \/ RangeDefinitions
    \/ BuildTypeFromDefinition
    \/ Paths
    \/ RangePaths
    \/ NoOperation
    \/ BuildTypeFromParameters
    \/ BuildTypeFromResponses
    \/ AddMethod
    \/ Return

Spec == Init /\ [][Next]_vars

(***************************************************************************)
(* buildTypeFromDefinition on its own, over every definition of Definitions*)
(***************************************************************************)
InitDefinition ==
    /\ pc = "definition"
    /\ pair \in Definitions
    /\ document = [Info |-> Some([Title |-> in_Pets]),
                   Definitions |-> Some([AdditionalProperties |-> <<pair>>]),
                   Paths |-> Some([Path |-> <<>>])]
    /\ model = [NewModel EXCEPT !.Name = in_Pets]
    /\ verb = 0
    /\ m = NewMethod
    /\ result = Running
    /\ schema = Nil
    /\ typeName = Nil

NextDefinition == BuildTypeFromDefinition

SpecDefinition == InitDefinition /\ [][NextDefinition]_vars

(***************************************************************************)
(* buildMethodFromOperation on its own, over every path item of            *)
(* OperationPathItems                                                      *)
(***************************************************************************)
InitOperation ==
    /\ pc = "operation"
    /\ pair \in OperationPathItems
    /\ document = [Info |-> Some([Title |-> in_Pets]),
                   Definitions |-> Nil,
                   Paths |-> Some([Path |-> <<pair>>])]
    /\ model = [NewModel EXCEPT !.Name = in_Pets]
    /\ verb = 1
    /\ m = NewMethod
    /\ result = Running
    /\ schema = Nil
    /\ typeName = Nil

NextOperation ==
    \/ NoOperation
    \/ BuildTypeFromParameters
    \/ BuildTypeFromResponses
    \/ AddMethod

SpecOperation == InitOperation /\ [][NextOperation]_vars

(***************************************************************************)
(* typeForSchema on its own, over every schema of Schemas                  *)
(***************************************************************************)
InitSchema ==
    /\ pc = "typeForSchema"
    /\ schema \in {Some(s) : s \in Schemas}
    /\ typeName = Nil
    /\ document = [Info |-> Nil, Definitions |-> Nil, Paths |-> Nil]
    /\ model = NewModel
    /\ pair = Nil
    /\ verb = 0
    /\ m = NewMethod
    /\ result = Running

TypeForSchema ==
    /\ pc = "typeForSchema"
    /\ typeName' = Some(typeForSchema(Deref(schema)))
    /\ pc' = "returned"
    /\ UNCHANGED <<document, model, pair, verb, m, result, schema>>

NextSchema == TypeForSchema

SpecSchema == InitSchema /\ [][NextSchema]_vars

(***************************************************************************)
(* What the claims speak of.                                               *)
(***************************************************************************)
\* the operation buildMethodFromOperation is working on
CurrentOperation == Deref(operationOf(pair.Value, Verbs[verb]))

TypeNamesOf(types) == [i \in 1..Len(types) |-> types[i].Name]

HasTypeNamed(name) == \E i \in 1..Len(model.Types) : model.Types[i].Name = name

IsNonEmpty(s) == s # EmptyString

NonEmptyStrings(names) == SelectSeq(names, IsNonEmpty)

DeclaredProperties(s) ==
    IF s.Properties = Nil THEN <<>> ELSE Deref(s.Properties).AdditionalProperties

\* the additional-properties clause of s is a schema with a reference
HasReferencedValueType(s) ==
    /\ s.AdditionalProperties # Nil
    /\ Deref(s.AdditionalProperties).Schema # Nil
    /\ Deref(Deref(s.AdditionalProperties).Schema).XRef # EmptyString

\* the entry has a body, header, form-data, query or path parameter
UsableParameter(item) ==
    /\ item.Oneof = "Parameter"
    /\ \/ item.Parameter = "BodyParameter"
       \/ /\ item.Parameter = "NonBodyParameter"
          /\ item.NonBody \in {"Header", "FormData", "Query", "Path"}

\* the status code resolves to a response that carries a schema
CarriesSchema(responseCode) ==
    /\ responseCode.Value.Oneof = "Response"
    /\ responseCode.Value.Schema # Nil
    /\ Deref(responseCode.Value.Schema).Schema # Nil

(***************************************************************************)
(* C1 to C10.                                                              *)
(***************************************************************************)

\* C1: an operation whose parameter list has no usable parameter (an empty
\* list, or entries none of which has a body, header, query, path or
\* form-data parameter) gets the empty parameters type name, and no
\* "<name>Parameters" Type is in the model's types.
C1_NoUsableParameterNoType ==
    (/\ pc \in {"responses", "addMethod"}
     /\ \A i \in 1..Len(CurrentOperation.Parameters) :
            ~UsableParameter(CurrentOperation.Parameters[i]))
    => /\ m.ParametersTypeName = EmptyString
       /\ ~HasTypeNamed(m.Name \o str_Parameters)

\* C2: a definition without declared properties yields a Type without fields,
\* whose kind is MAP with the normalized reference as its map value type when
\* the additional-properties value is a named reference, and is left unset
\* otherwise.
C2_KindOfDefinitionWithoutProperties ==
    (pc # "definition" /\ Len(DeclaredProperties(pair.Value)) = 0)
    => /\ pc = "definitions"
       /\ Len(model.Types) = 1
       /\ Len(model.Types[1].Fields) = 0
       /\ IF HasReferencedValueType(pair.Value)
          THEN /\ model.Types[1].Kind = Kind_MAP
               /\ model.Types[1].MapType =
                      typeForRef(Deref(Deref(pair.Value.AdditionalProperties).Schema).XRef)
          ELSE model.Types[1].Kind = Kind_UNSET

\* C3: no two Types of the returned Model have the same name.
C3_TypeNamesUnique ==
    result.status = "returned" /\ result.model # Nil
    => \A i, j \in 1..Len(Deref(result.model).Types) :
           i # j => Deref(result.model).Types[i].Name # Deref(result.model).Types[j].Name

\* C4: once NewModelFromOpenAPI2 is over, a document without its Info or its
\* Paths section has given the caller an error and no Model, and every other
\* document a Model and no error.
C4_ErrorOrModel ==
    pc \in {"done", "panic"}
    => /\ result.status = "returned"
       /\ IF document.Info = Nil \/ document.Paths = Nil
          THEN result.model = Nil /\ result.err # Nil
          ELSE result.model # Nil /\ result.err = Nil

\* C5: the name of a Method is the sanitized operation identifier when the
\* identifier is not empty and the name generated from the verb and the path
\* when it is, and the names of the parameters and responses Types are that
\* name followed by "Parameters" and "Responses".
C5_MethodName ==
    pc \in {"responses", "addMethod"}
    => /\ m.Name = IF CurrentOperation.OperationId # EmptyString
                   THEN sanitizeOperationName(CurrentOperation.OperationId)
                   ELSE generateOperationName(Verbs[verb], pair.Name)
       /\ m.ParametersTypeName \in {EmptyString, m.Name \o str_Parameters}
       /\ m.ResponsesTypeName \in {EmptyString, m.Name \o str_Responses}
       /\ \A i \in 1..Len(model.Types) :
              model.Types[i].Name \in {m.Name \o str_Parameters, m.Name \o str_Responses}

C5_Witness ==
    /\ pc = "addMethod"
    /\ CurrentOperation.OperationId = EmptyString
    /\ m.Method = str_DELETE
    /\ m.Name = generateOperationName(str_DELETE, in_p_id)
    /\ m.ParametersTypeName # EmptyString
    /\ m.ResponsesTypeName # EmptyString

\* the number of Methods of the model with this path and this verb
MethodCount(path, method) ==
    Cardinality({k \in 1..Len(model.Methods) :
                    model.Methods[k].Path = path /\ model.Methods[k].Method = method})

\* C6: the Methods of the returned Model are one for every operation that a
\* path item has under GET, POST, PUT or DELETE, with that path and that verb,
\* and no others: an operation under PATCH gives no Method.
C6_OneMethodPerOperation ==
    pc = "done"
    => LET paths == Deref(document.Paths).Path
       IN  /\ \A i \in 1..Len(paths) :
                /\ MethodCount(paths[i].Name, str_GET)
                       = IF paths[i].Value.Get # Nil THEN 1 ELSE 0
                /\ MethodCount(paths[i].Name, str_POST)
                       = IF paths[i].Value.Post # Nil THEN 1 ELSE 0
                /\ MethodCount(paths[i].Name, str_PUT)
                       = IF paths[i].Value.Put # Nil THEN 1 ELSE 0
                /\ MethodCount(paths[i].Name, str_DELETE)
                       = IF paths[i].Value.Delete # Nil THEN 1 ELSE 0
           /\ \A k \in 1..Len(model.Methods) :
                /\ model.Methods[k].Method \in {str_GET, str_POST, str_PUT, str_DELETE}
                /\ \E i \in 1..Len(paths) : paths[i].Name = model.Methods[k].Path
           /\ Deref(result.model).Methods = model.Methods

\* a path item with nothing but a PATCH operation, and another with a Method
C6_Witness ==
    /\ pc = "done"
    /\ \E i \in 1..Len(Deref(document.Paths).Path) :
          /\ Deref(document.Paths).Path[i].Value.Patch # Nil
          /\ OperationCount(Deref(document.Paths).Path[i].Value) = 1
    /\ Len(model.Methods) = 2

\* C7: the responses Type of an operation has one field for every status code
\* that resolves to a response with a schema, in their order, named after the
\* status code, of type "*" followed by its value type and not serialized; if
\* no status code has a schema, no responses Type is in the model and the
\* responses type name is empty.
C7_ResponsesType ==
    pc = "addMethod"
    => LET codes == SelectSeq(Deref(CurrentOperation.Responses).ResponseCode,
                              CarriesSchema)
           last == model.Types[Len(model.Types)]
       IN  IF codes = <<>>
           THEN /\ m.ResponsesTypeName = EmptyString
                /\ ~HasTypeNamed(m.Name \o str_Responses)
           ELSE /\ m.ResponsesTypeName = m.Name \o str_Responses
                /\ Cardinality({i \in 1..Len(model.Types) :
                                   model.Types[i].Name = m.ResponsesTypeName}) = 1
                /\ last.Name = m.ResponsesTypeName
                /\ Len(last.Fields) = Len(codes)
                /\ \A i \in 1..Len(codes) :
                       /\ last.Fields[i].Name = codes[i].Name
                       /\ last.Fields[i].ValueType =
                              typeForSchema(Deref(Deref(codes[i].Value.Schema).Schema))
                       /\ last.Fields[i].Type = str_star \o last.Fields[i].ValueType
                       /\ last.Fields[i].Serialize = FALSE

\* two status codes, the second of them alone with a schema
C7_Witness ==
    /\ pc = "addMethod"
    /\ Len(Deref(CurrentOperation.Responses).ResponseCode) = 2
    /\ ~CarriesSchema(Deref(CurrentOperation.Responses).ResponseCode[1])
    /\ CarriesSchema(Deref(CurrentOperation.Responses).ResponseCode[2])
    /\ Len(model.Types[Len(model.Types)].Fields) = 1
    /\ model.Types[Len(model.Types)].Fields[1].Name = in_default

\* C8: typeForSchema of a schema with a reference is the normalized name of
\* the reference, whatever the type, format, items and additional properties
\* of the schema.
C8_ReferenceFirst ==
    pc = "returned" /\ Deref(schema).XRef # EmptyString
    => typeName = Some(typeForRef(Deref(schema).XRef))

\* a reference beside a declared type, a format, items and additional properties
C8_Witness ==
    /\ pc = "returned"
    /\ Deref(schema).XRef = in_refPet
    /\ Deref(schema).Type = Some([Value |-> <<str_integer>>])
    /\ Deref(schema).Format = str_int32
    /\ Deref(schema).Items # Nil
    /\ Deref(schema).AdditionalProperties # Nil
    /\ typeName = Some(in_Pet)

\* C9: a definition with declared properties yields a STRUCT Type with one
\* field per property, in their order, every field serialized, and an empty
\* map value type, with an additional-properties clause or not.
C9_StructOfProperties ==
    (pc # "definition" /\ Len(DeclaredProperties(pair.Value)) >= 1)
    => /\ pc = "definitions"
       /\ Len(model.Types) = 1
       /\ model.Types[1].Name = pair.Name
       /\ model.Types[1].Kind = Kind_STRUCT
       /\ model.Types[1].MapType = EmptyString
       /\ Len(model.Types[1].Fields) = Len(DeclaredProperties(pair.Value))
       /\ \A i \in 1..Len(DeclaredProperties(pair.Value)) :
              /\ model.Types[1].Fields[i].Name = DeclaredProperties(pair.Value)[i].Name
              /\ model.Types[1].Fields[i].Serialize = TRUE

\* two properties beside an additional-properties clause with a reference
C9_Witness ==
    /\ pc = "definitions"
    /\ Len(DeclaredProperties(pair.Value)) = 2
    /\ DeclaredProperties(pair.Value)[1].Name # DeclaredProperties(pair.Value)[2].Name
    /\ HasReferencedValueType(pair.Value)
    /\ model.Types[1].Kind = Kind_STRUCT

\* the definitions whose Type is built
BuiltDefinitions ==
    LET definitions == IF document.Definitions = Nil THEN <<>>
                       ELSE Deref(document.Definitions).AdditionalProperties
    IN  IF pc = "definition"
        THEN SubSeq(definitions, 1, Len(definitions) - 1)
        ELSE definitions

\* the names of the Types of the Method being filled that are in the model
PendingTypeNames ==
    IF pc \in {"responses", "addMethod"}
    THEN NonEmptyStrings(<<m.ParametersTypeName, m.ResponsesTypeName>>)
    ELSE <<>>

RECURSIVE MethodTypeNames(_)
\* the names of the Types of the Methods, Method after Method, the
\* parameters Type of each before its responses Type
MethodTypeNames(methods) ==
    IF methods = <<>> THEN <<>>
    ELSE NonEmptyStrings(<<Head(methods).ParametersTypeName,
                           Head(methods).ResponsesTypeName>>)
         \o MethodTypeNames(Tail(methods))

\* the path and verb of the first n of GET, POST, PUT, DELETE that the path
\* item has an operation under
OperationsOfPath(p, n) ==
    (IF n >= 1 /\ p.Value.Get # Nil THEN <<<<p.Name, str_GET>>>> ELSE <<>>)
    \o (IF n >= 2 /\ p.Value.Post # Nil THEN <<<<p.Name, str_POST>>>> ELSE <<>>)
    \o (IF n >= 3 /\ p.Value.Put # Nil THEN <<<<p.Name, str_PUT>>>> ELSE <<>>)
    \o (IF n >= 4 /\ p.Value.Delete # Nil THEN <<<<p.Name, str_DELETE>>>> ELSE <<>>)

\* the operations whose Method is in the model: those of the path items
\* before the running one, and those of the running one before the verb
BuiltOperations ==
    LET paths == IF document.Paths = Nil THEN <<>> ELSE Deref(document.Paths).Path
    IN  Concat([i \in 1..Len(paths) |->
                   OperationsOfPath(paths[i],
                       IF i = Len(paths) /\ pc \in {"operation", "responses", "addMethod"}
                       THEN verb - 1
                       ELSE Len(Verbs))])

\* C10: at every point of a translation the types of the model are the Types
\* of the definitions read so far, in their order, then the Types of the
\* Methods built so far, Method after Method and parameters before responses,
\* then those of the Method being built, which is not among the methods yet;
\* and the methods are those of the operations met so far, in the order of
\* the paths and, within a path, in the order GET, POST, PUT, DELETE.
C10_AppendOrder ==
    pc \notin {"buildModel", "panic"}
    => /\ TypeNamesOf(model.Types)
              = TypeNamesOf(BuiltDefinitions)
                \o MethodTypeNames(model.Methods)
                \o PendingTypeNames
       /\ [k \in 1..Len(model.Methods) |->
              <<model.Methods[k].Path, model.Methods[k].Method>>]
              = BuiltOperations

\* a definition, then a path with two operations, the second with both Types
C10_Witness ==
    /\ pc = "done"
    /\ Len(BuiltDefinitions) = 1
    /\ Len(model.Methods) = 2
    /\ model.Methods[1].Method = str_POST
    /\ model.Methods[2].Method = str_DELETE
    /\ model.Methods[1].ParametersTypeName = EmptyString
    /\ model.Methods[2].ParametersTypeName # EmptyString
    /\ Len(model.Types) = 4

====
